---- MODULE Spec2Model ----
(***************************************************************************)
(* A model of the wifi-qr-code crate (src/src/lib.rs).                     *)
(*                                                                         *)
(* A Rust String is modelled as a sequence of one-character strings, so    *)
(* that str::replace, format! and the escaping of the reserved characters  *)
(* are computed character by character, as the code computes them.         *)
(***************************************************************************)
EXTENDS Naturals, Sequences, FiniteSets

VARIABLES
    pc,                 \* the operation that produced the current state
    input,              \* the text handed to escape
    escaped,            \* escape(input)
    reescaped,          \* escape(escape(input))
    wifi_credentials,   \* the WifiCredentials value the caller constructed
    encoded,            \* the String returned by WifiCredentials::encode
    request,            \* the caller's arguments to an encode_as_* function
    call,               \* what the function handed to qrcode_generator
    reply,              \* what qrcode_generator returned
    returned,           \* what the encode_as_* function returned
    sink                \* the contents of the caller's writer

vars == <<pc, input, escaped, reescaped, wifi_credentials, encoded,
          request, call, reply, returned, sink>>

(***************************************************************************)
(* Bounds of the model.                                                    *)
(***************************************************************************)
\* longest text handed to escape on its own
MaxLen == 4
\* longest enumerated ssid and password of the credentials given to encode
MaxSsidLen == 2
MaxPasswordLen == 1
\* longest enumerated ssid and password of the public API's credentials
MaxApiLen == 1

(***************************************************************************)
(* Characters and texts.                                                   *)
(***************************************************************************)
\* the five characters escape rewrites
Reserved == {"\\", "\"", ";", ",", ":"}
\* the reserved characters and two ordinary ones ("P" spells the P: tag)
Alphabet == Reserved \cup {"a", "P"}
\* a narrower alphabet for the specification that compares pairs of credentials
ApiAlphabet == {"\\", ";", ",", ":", "a"}

TextsUpTo(alphabet, n) == UNION {[1..k -> alphabet] : k \in 0..n}

\* the texts of the crate's unit tests
TestSsid == <<"t", "e", "s", "t", " ", "s", "s", "i", "d">>
TestPassword == <<"t", "e", "s", "t", " ", "p", "a", "s", "s", "w", "o", "r", "d">>
SpecialCharacters ==
    <<"s", "p", "e", "c", "i", "a", "l", "_", "c", "h", "a", "r", "a", "c", "t",
      "e", "r", "s", " ", "\"", ";", ",", ":", "\\">>
\* a text that spells the grammar's own separators
SeparatorText == <<";", "T", ":", "W", "P", "A", ";", "P", ":">>

\* a text that spells the password tag after a separator
PSegmentText == <<";", "P", ":">>

NoText == <<>>

(***************************************************************************)
(* fn escape, lib.rs 200-207.                                              *)
(***************************************************************************)
\* str::replace: every non-overlapping match of from, left to right
RECURSIVE replace(_, _, _)
replace(s, from, to) ==
    IF Len(s) < Len(from) \/ Len(from) = 0 THEN s
    ELSE IF SubSeq(s, 1, Len(from)) = from
         THEN to \o replace(SubSeq(s, Len(from) + 1, Len(s)), from, to)
         ELSE <<Head(s)>> \o replace(Tail(s), from, to)

escape_backslash_last(text) ==
    LET s1 == replace(text, <<"\"">>, <<"\\", "\"">>)
        s2 == replace(s1, <<";">>, <<"\\", ";">>)
        s3 == replace(s2, <<",">>, <<"\\", ",">>)
        s4 == replace(s3, <<":">>, <<"\\", ":">>)
    IN  replace(s4, <<"\\">>, <<"\\", "\\">>)

escape_comma_as_semicolon(text) ==
    LET s1 == replace(text, <<"\\">>, <<"\\", "\\">>)
        s2 == replace(s1, <<"\"">>, <<"\\", "\"">>)
        s3 == replace(s2, <<";">>, <<"\\", ";">>)
        s4 == replace(s3, <<",">>, <<"\\", ";">>)
    IN  replace(s4, <<":">>, <<"\\", ":">>)

escape_no_colon(text) ==
    LET s1 == replace(text, <<"\\">>, <<"\\", "\\">>)
        s2 == replace(s1, <<"\"">>, <<"\\", "\"">>)
        s3 == replace(s2, <<";">>, <<"\\", ";">>)
    IN  replace(s3, <<",">>, <<"\\", ",">>)

escape_no_quote(text) ==
    LET s1 == replace(text, <<"\\">>, <<"\\", "\\">>)
        s3 == replace(s1, <<";">>, <<"\\", ";">>)
        s4 == replace(s3, <<",">>, <<"\\", ",">>)
    IN  replace(s4, <<":">>, <<"\\", ":">>)

escape_single_backslash(text) ==
    LET s2 == replace(text, <<"\"">>, <<"\\", "\"">>)
        s3 == replace(s2, <<";">>, <<"\\", ";">>)
        s4 == replace(s3, <<",">>, <<"\\", ",">>)
    IN  replace(s4, <<":">>, <<"\\", ":">>)

escape(text) ==
    LET s1 == replace(text, <<"\\">>, <<"\\", "\\">>)
        s2 == replace(s1, <<"\"">>, <<"\\", "\"">>)
        s3 == replace(s2, <<";">>, <<"\\", ";">>)
        s4 == replace(s3, <<",">>, <<"\\", ",">>)
    IN  replace(s4, <<":">>, <<"\\", ":">>)

(***************************************************************************)
(* The credentials, lib.rs 124-198.                                        *)
(***************************************************************************)
WEP(password) == [variant |-> "WEP", password |-> password]
WPA(password) == [variant |-> "WPA", password |-> password]
NoPassword == [variant |-> "NoPassword"]

Visible == "Visible"
Hidden == "Hidden"
Visibility == {Visible, Hidden}

AuthenticationTypes(passwords) ==
    {WEP(p) : p \in passwords} \cup {WPA(p) : p \in passwords} \cup {NoPassword}

WifiCredentials(ssids, passwords) ==
    {[ssid |-> s, authentication_type |-> a, visibility |-> v] :
        s \in ssids, a \in AuthenticationTypes(passwords), v \in Visibility}

AuthenticationType_encode_nopass_with_P(self) ==
    CASE self.variant = "WEP" ->
            <<"T", ":", "W", "E", "P", ";", "P", ":">> \o escape(self.password) \o <<";">>
      [] self.variant = "WPA" ->
            <<"T", ":", "W", "P", "A", ";", "P", ":">> \o escape(self.password) \o <<";">>
      [] self.variant = "NoPassword" ->
            <<"T", ":", "n", "o", "p", "a", "s", "s", ";", "P", ":", ";">>

AuthenticationType_encode(self) ==
    CASE self.variant = "WEP" ->
            <<"T", ":", "W", "E", "P", ";", "P", ":">> \o escape(self.password) \o <<";">>
      [] self.variant = "WPA" ->
            <<"T", ":", "W", "P", "A", ";", "P", ":">> \o escape(self.password) \o <<";">>
      [] self.variant = "NoPassword" ->
            <<"T", ":", "n", "o", "p", "a", "s", "s", ";">>

Visibility_encode_swapped(self) ==
    CASE self = Visible -> <<"H", ":", "t", "r", "u", "e", ";">>
      [] self = Hidden -> <<"H", ":", "f", "a", "l", "s", "e", ";">>

Visibility_encode(self) ==
    CASE self = Visible -> <<"H", ":", "f", "a", "l", "s", "e", ";">>
      [] self = Hidden -> <<"H", ":", "t", "r", "u", "e", ";">>

encode_ssid(self) == <<"S", ":">> \o escape(self.ssid) \o <<";">>

WifiCredentials_encode_one_semicolon(self) ==
    <<"W", "I", "F", "I", ":">>
        \o encode_ssid(self)
        \o AuthenticationType_encode(self.authentication_type)
        \o Visibility_encode(self.visibility)

WifiCredentials_encode(self) ==
    <<"W", "I", "F", "I", ":">>
        \o encode_ssid(self)
        \o AuthenticationType_encode(self.authentication_type)
        \o Visibility_encode(self.visibility)
        \o <<";">>

(***************************************************************************)
(* The inputs.                                                             *)
(***************************************************************************)
EscapeInputs == TextsUpTo(Alphabet, MaxLen) \cup {SpecialCharacters}

Ssids ==
    TextsUpTo(Alphabet, MaxSsidLen) \cup {TestSsid, SpecialCharacters, SeparatorText, PSegmentText}
Passwords ==
    TextsUpTo(Alphabet, MaxPasswordLen)
        \cup {TestPassword, SpecialCharacters, SeparatorText}
Credentials == WifiCredentials(Ssids, Passwords)

NoCredentials == [ssid |-> NoText, authentication_type |-> NoPassword,
                  visibility |-> Visible]
NoRequest == [function |-> "none"]
NoCall == [function |-> "none"]
NoResult == [ok |-> FALSE, error |-> "none"]

(***************************************************************************)
(* escape on its own: a text is escaped, and the result escaped again.     *)
(***************************************************************************)
InitEscape ==
    /\ pc = "start"
    /\ input \in EscapeInputs
    /\ escaped = NoText
    /\ reescaped = NoText
    /\ wifi_credentials = NoCredentials
    /\ encoded = NoText
    /\ request = NoRequest
    /\ call = NoCall
    /\ reply = NoResult
    /\ returned = NoResult
    /\ sink = <<>>

Escape ==
    /\ pc = "start"
    /\ escaped' = escape(input)
    /\ pc' = "escaped"
    /\ UNCHANGED <<input, reescaped, wifi_credentials, encoded, request, call,
                   reply, returned, sink>>

Reescape ==
    /\ pc = "escaped"
    /\ reescaped' = escape(escaped)
    /\ pc' = "reescaped"
    /\ UNCHANGED <<input, escaped, wifi_credentials, encoded, request, call,
                   reply, returned, sink>>

NextEscape == Escape \/ Reescape

SpecEscape == InitEscape /\ [][NextEscape]_vars

(***************************************************************************)
(* WifiCredentials::encode over the enumerated credentials.                *)
(***************************************************************************)
InitWith(credentials) ==
    /\ pc = "start"
    /\ input = NoText
    /\ escaped = NoText
    /\ reescaped = NoText
    /\ wifi_credentials \in credentials
    /\ encoded = NoText
    /\ request = NoRequest
    /\ call = NoCall
    /\ reply = NoResult
    /\ returned = NoResult
    /\ sink = <<>>

Init == InitWith(Credentials)

Encode ==
    /\ pc = "start"
    /\ encoded' = WifiCredentials_encode(wifi_credentials)
    /\ pc' = "encoded"
    /\ UNCHANGED <<input, escaped, reescaped, wifi_credentials, request, call,
                   reply, returned, sink>>

Next == Encode

Spec == Init /\ [][Next]_vars

(***************************************************************************)
(* The rendering collaborator, qrcode_generator, as the crate uses it: a   *)
(* call either succeeds or reports one of the collaborator's failures.     *)
(* Which of the two happens is the collaborator's choice (fault).          *)
(***************************************************************************)
QrCodeEcc == {"Low", "Medium", "Quartile", "High"}
ImageSizes == {100, 512}

Ok(value) == [ok |-> TRUE, value |-> value]
Err(error) == [ok |-> FALSE, error |-> error]

\* the failures each collaborator function can report ("none": it succeeds)
MatrixFaults == {"none", "DataTooLong"}
ImageFaults == MatrixFaults \cup {"ImageSizeTooSmall"}
WriterFaults == ImageFaults \cup {"IOError"}

to_matrix(data, ecc, fault) ==
    IF fault = "none" THEN Ok([kind |-> "matrix", data |-> data, ecc |-> ecc])
    ELSE Err(fault)

to_image(data, ecc, size, fault) ==
    IF fault = "none"
    THEN Ok([kind |-> "image", data |-> data, ecc |-> ecc, size |-> size])
    ELSE Err(fault)

\* the result, and the writer as the call leaves it
to_png_to_writer(data, ecc, size, writer, fault) ==
    IF fault = "none"
    THEN [result |-> Ok("unit"),
          writer |-> Append(writer, [format |-> "PNG", data |-> data,
                                     ecc |-> ecc, size |-> size])]
    ELSE [result |-> Err(fault), writer |-> writer]

(***************************************************************************)
(* The public functions, lib.rs 26-122.  Each gives the call it makes, the *)
(* collaborator's reply, the value it returns and the writer afterwards.   *)
(***************************************************************************)
encode_as_matrix(credentials, qr_code_error_checking, fault) ==
    LET data == WifiCredentials_encode(credentials)
        r == to_matrix(data, qr_code_error_checking, fault)
    IN  [call |-> [function |-> "to_matrix", data |-> data,
                   ecc |-> qr_code_error_checking],
         reply |-> r, returned |-> r]

encode_as_image(credentials, qr_code_error_checking, image_size, fault) ==
    LET data == WifiCredentials_encode(credentials)
        r == to_image(data, qr_code_error_checking, image_size, fault)
    IN  [call |-> [function |-> "to_image", data |-> data,
                   ecc |-> qr_code_error_checking, size |-> image_size],
         reply |-> r, returned |-> r]

encode_as_png_masking_failure(credentials, qr_code_error_checking, image_size, writer, fault) ==
    LET data == WifiCredentials_encode(credentials)
        r == to_png_to_writer(data, qr_code_error_checking, image_size, writer, fault)
    IN  [call |-> [function |-> "to_png_to_writer", data |-> data,
                   ecc |-> qr_code_error_checking, size |-> image_size,
                   writer |-> writer],
         reply |-> r.result, returned |-> Ok("unit"), writer |-> r.writer]

encode_as_png(credentials, qr_code_error_checking, image_size, writer, fault) ==
    LET data == WifiCredentials_encode(credentials)
        r == to_png_to_writer(data, qr_code_error_checking, image_size, writer, fault)
    IN  [call |-> [function |-> "to_png_to_writer", data |-> data,
                   ecc |-> qr_code_error_checking, size |-> image_size,
                   writer |-> writer],
         reply |-> r.result, returned |-> r.result, writer |-> r.writer]

\* lib.rs 116: encode_as_svg calls to_png_to_writer
encode_as_svg(credentials, qr_code_error_checking, image_size, writer, fault) ==
    LET data == WifiCredentials_encode(credentials)
        r == to_png_to_writer(data, qr_code_error_checking, image_size, writer, fault)
    IN  [call |-> [function |-> "to_png_to_writer", data |-> data,
                   ecc |-> qr_code_error_checking, size |-> image_size,
                   writer |-> writer],
         reply |-> r.result, returned |-> r.result, writer |-> r.writer]

(***************************************************************************)
(* The public API over a narrower set of credentials: encode and the four  *)
(* encode_as_* functions, each called on freshly constructed credentials.  *)
(***************************************************************************)
ApiTexts == TextsUpTo(ApiAlphabet, MaxApiLen) \cup {SeparatorText}
ApiCredentials == WifiCredentials(ApiTexts, ApiTexts)

InitApi == InitWith(ApiCredentials)

EncodeAsMatrix ==
    /\ pc = "start"
    /\ \E ecc \in QrCodeEcc, fault \in MatrixFaults :
        LET r == encode_as_matrix(wifi_credentials, ecc, fault)
        IN  /\ request' = [function |-> "encode_as_matrix", ecc |-> ecc]
            /\ call' = r.call
            /\ reply' = r.reply
            /\ returned' = r.returned
    /\ pc' = "encode_as_matrix"
    /\ UNCHANGED <<input, escaped, reescaped, wifi_credentials, encoded, sink>>

EncodeAsImage ==
    /\ pc = "start"
    /\ \E ecc \in QrCodeEcc, size \in ImageSizes, fault \in ImageFaults :
        LET r == encode_as_image(wifi_credentials, ecc, size, fault)
        IN  /\ request' = [function |-> "encode_as_image", ecc |-> ecc, size |-> size]
            /\ call' = r.call
            /\ reply' = r.reply
            /\ returned' = r.returned
    /\ pc' = "encode_as_image"
    /\ UNCHANGED <<input, escaped, reescaped, wifi_credentials, encoded, sink>>

EncodeAsPng ==
    /\ pc = "start"
    /\ \E ecc \in QrCodeEcc, size \in ImageSizes, fault \in WriterFaults :
        LET r == encode_as_png(wifi_credentials, ecc, size, sink, fault)
        IN  /\ request' = [function |-> "encode_as_png", ecc |-> ecc, size |-> size,
                           writer |-> sink]
            /\ call' = r.call
            /\ reply' = r.reply
            /\ returned' = r.returned
            /\ sink' = r.writer
    /\ pc' = "encode_as_png"
    /\ UNCHANGED <<input, escaped, reescaped, wifi_credentials, encoded>>

EncodeAsSvg ==
    /\ pc = "start"
    /\ \E ecc \in QrCodeEcc, size \in ImageSizes, fault \in WriterFaults :
        LET r == encode_as_svg(wifi_credentials, ecc, size, sink, fault)
        IN  /\ request' = [function |-> "encode_as_svg", ecc |-> ecc, size |-> size,
                           writer |-> sink]
            /\ call' = r.call
            /\ reply' = r.reply
            /\ returned' = r.returned
            /\ sink' = r.writer
    /\ pc' = "encode_as_svg"
    /\ UNCHANGED <<input, escaped, reescaped, wifi_credentials, encoded>>

NextApi == Encode \/ EncodeAsMatrix \/ EncodeAsImage \/ EncodeAsPng \/ EncodeAsSvg

SpecApi == InitApi /\ [][NextApi]_vars

(***************************************************************************)
(* Vocabulary of the properties.                                           *)
(***************************************************************************)
HasPrefix(s, prefix) ==
    Len(prefix) <= Len(s) /\ SubSeq(s, 1, Len(prefix)) = prefix
HasSuffix(s, suffix) ==
    Len(suffix) <= Len(s) /\ SubSeq(s, Len(s) - Len(suffix) + 1, Len(s)) = suffix
Contains(s, sub) ==
    \E i \in 1..Len(s) : i + Len(sub) - 1 <= Len(s) /\ SubSeq(s, i, i + Len(sub) - 1) = sub
DropPrefix(s, prefix) == SubSeq(s, Len(prefix) + 1, Len(s))

HasReserved(t) == \E i \in 1..Len(t) : t[i] \in Reserved

\* the one-pass mapping: a backslash is put before each reserved character
RECURSIVE SinglePass(_)
SinglePass(t) ==
    IF t = <<>> THEN <<>>
    ELSE (IF Head(t) \in Reserved THEN <<"\\", Head(t)>> ELSE <<Head(t)>>)
            \o SinglePass(Tail(t))

\* the five inverse substitutions, each a whole-string replacement
unescape(t) ==
    LET u1 == replace(t, <<"\\", ":">>, <<":">>)
        u2 == replace(u1, <<"\\", ",">>, <<",">>)
        u3 == replace(u2, <<"\\", ";">>, <<";">>)
        u4 == replace(u3, <<"\\", "\"">>, <<"\"">>)
    IN  replace(u4, <<"\\", "\\">>, <<"\\">>)

\* the length of the maximal run of backslashes immediately before position i
RECURSIVE BackslashRun(_, _)
BackslashRun(s, i) ==
    IF i > 1 /\ s[i - 1] = "\\" THEN 1 + BackslashRun(s, i - 1) ELSE 0

\* the positions of the characters of chars that no backslash escapes
Unescaped(s, chars) ==
    {i \in 1..Len(s) : s[i] \in chars /\ BackslashRun(s, i) % 2 = 0}
Separators(s) == Unescaped(s, {";"})

\* the k-th field of s, the unescaped semicolons being the separators
FieldEnd(s, k) ==
    CHOOSE i \in Separators(s) : Cardinality({j \in Separators(s) : j < i}) = k - 1
Field(s, k) ==
    IF Cardinality(Separators(s)) < k THEN <<>>
    ELSE SubSeq(s, (IF k = 1 THEN 1 ELSE FieldEnd(s, k - 1) + 1), FieldEnd(s, k) - 1)

WifiS == <<"W", "I", "F", "I", ":", "S", ":">>
HTrue == <<"H", ":", "t", "r", "u", "e">>
HFalse == <<"H", ":", "f", "a", "l", "s", "e">>

HasPassword(c) == c.authentication_type.variant \in {"WEP", "WPA"}

(***************************************************************************)
(* Properties of escape (SpecEscape).                                      *)
(***************************************************************************)
\* C2: escape's five ordered whole-string replacements give the same string
\* as the one-pass mapping that puts one backslash before each reserved
\* character and copies every other character.
C2_EscapeIsSinglePass ==
    pc \in {"escaped", "reescaped"} => escaped = SinglePass(input)

C2_Witness ==
    /\ pc = "escaped"
    /\ input = <<";", "\\", ":">>
    /\ escaped = <<"\\", ";", "\\", "\\", "\\", ":">>

\* C6: escaping an escaped text gives the same text exactly when the original
\* text holds no reserved character.
C6_IdempotentIffNoReserved ==
    pc = "reescaped" => ((reescaped = escaped) <=> ~HasReserved(input))

C6_Witness ==
    /\ pc = "reescaped"
    /\ input = <<"a", ":">>
    /\ escaped = <<"a", "\\", ":">>
    /\ reescaped = <<"a", "\\", "\\", "\\", ":">>

(***************************************************************************)
(* Properties of WifiCredentials::encode (Spec).                           *)
(***************************************************************************)
ExpectedAuthentication(a) ==
    CASE a.variant = "WEP" ->
            <<"T", ":", "W", "E", "P", ";", "P", ":">> \o escape(a.password) \o <<";">>
      [] a.variant = "WPA" ->
            <<"T", ":", "W", "P", "A", ";", "P", ":">> \o escape(a.password) \o <<";">>
      [] a.variant = "NoPassword" -> <<"T", ":", "n", "o", "p", "a", "s", "s", ";">>

ExpectedVisibility(v) ==
    IF v = Hidden THEN <<"H", ":", "t", "r", "u", "e", ";">>
    ELSE <<"H", ":", "f", "a", "l", "s", "e", ";">>

Grammar(c) ==
    <<"W", "I", "F", "I", ":">> \o <<"S", ":">> \o escape(c.ssid) \o <<";">>
        \o ExpectedAuthentication(c.authentication_type)
        \o ExpectedVisibility(c.visibility) \o <<";">>

\* C1: encode returns "WIFI:" "S:" escape(ssid) ";" A H ";" with A and H as
\* the grammar gives them for the authentication variant and the visibility.
C1_EncodeGrammar ==
    pc = "encoded" => encoded = Grammar(wifi_credentials)

\* the crate's test it_properly_handles_escaped_characters
C1_Witness ==
    /\ pc = "encoded"
    /\ wifi_credentials = [ssid |-> SpecialCharacters,
                           authentication_type |-> WEP(SpecialCharacters),
                           visibility |-> Visible]
    /\ encoded =
        <<"W", "I", "F", "I", ":", "S", ":", "s", "p", "e", "c", "i", "a", "l", "_",
          "c", "h", "a", "r", "a", "c", "t", "e", "r", "s", " ", "\\", "\"", "\\",
          ";", "\\", ",", "\\", ":", "\\", "\\", ";", "T", ":", "W", "E", "P", ";",
          "P", ":", "s", "p", "e", "c", "i", "a", "l", "_", "c", "h", "a", "r", "a",
          "c", "t", "e", "r", "s", " ", "\\", "\"", "\\", ";", "\\", ",", "\\", ":",
          "\\", "\\", ";", "H", ":", "f", "a", "l", "s", "e", ";", ";">>

\* C3: unescaping the content of the S: field and of the P: field of encode's
\* output gives back the ssid and the password.
C3_RoundTrip ==
    pc = "encoded" =>
        /\ HasPrefix(Field(encoded, 1), WifiS)
        /\ unescape(DropPrefix(Field(encoded, 1), WifiS)) = wifi_credentials.ssid
        /\ HasPassword(wifi_credentials) =>
            /\ HasPrefix(Field(encoded, 3), <<"P", ":">>)
            /\ unescape(DropPrefix(Field(encoded, 3), <<"P", ":">>))
                    = wifi_credentials.authentication_type.password

C3_Witness ==
    /\ pc = "encoded"
    /\ wifi_credentials.ssid = <<"\\", ";">>
    /\ wifi_credentials.authentication_type = WPA(SpecialCharacters)
    /\ Field(encoded, 1) = WifiS \o <<"\\", "\\", "\\", ";">>
    /\ unescape(DropPrefix(Field(encoded, 1), WifiS)) = <<"\\", ";">>
    /\ unescape(DropPrefix(Field(encoded, 3), <<"P", ":">>)) = SpecialCharacters

\* C4: encode returns, for every credentials value, a non-empty string that
\* begins with "WIFI:" and ends with ";;"; an empty ssid gives the segment
\* "S:;" and an empty password the segment "P:;".
C4_EncodeTotal ==
    pc = "encoded" =>
        /\ encoded # <<>>
        /\ HasPrefix(encoded, <<"W", "I", "F", "I", ":">>)
        /\ HasSuffix(encoded, <<";", ";">>)
        /\ wifi_credentials.ssid = <<>> =>
                HasPrefix(encoded, <<"W", "I", "F", "I", ":", "S", ":", ";">>)
        /\ (HasPassword(wifi_credentials)
                /\ wifi_credentials.authentication_type.password = <<>>) =>
                /\ Field(encoded, 3) = <<"P", ":">>
                /\ Contains(encoded, <<"P", ":", ";">>)

C4_Witness ==
    /\ pc = "encoded"
    /\ wifi_credentials = [ssid |-> <<>>, authentication_type |-> WPA(<<>>),
                           visibility |-> Hidden]
    /\ encoded = <<"W", "I", "F", "I", ":", "S", ":", ";", "T", ":", "W", "P", "A",
                   ";", "P", ":", ";", "H", ":", "t", "r", "u", "e", ";", ";">>

\* C5: for NoPassword the output holds "P:" nowhere and the field after
\* "T:nopass" is the H: field.
C5_NoPasswordOmitsP ==
    (pc = "encoded" /\ ~HasPassword(wifi_credentials)) =>
        /\ ~Contains(encoded, <<"P", ":">>)
        /\ Field(encoded, 2) = <<"T", ":", "n", "o", "p", "a", "s", "s">>
        /\ Field(encoded, 3) \in {HTrue, HFalse}
        /\ Contains(encoded, <<"T", ":", "n", "o", "p", "a", "s", "s", ";", "H", ":">>)

C5_Witness ==
    /\ pc = "encoded"
    /\ wifi_credentials = [ssid |-> PSegmentText, authentication_type |-> NoPassword,
                           visibility |-> Visible]
    /\ encoded = <<"W", "I", "F", "I", ":", "S", ":", "\\", ";", "P", "\\", ":", ";",
                   "T", ":", "n", "o", "p", "a", "s", "s", ";",
                   "H", ":", "f", "a", "l", "s", "e", ";", ";">>

\* the positions of encode's output that hold the escaped ssid and password
SsidPositions(c) == 8..(7 + Len(escape(c.ssid)))
PasswordPositions(c) ==
    IF HasPassword(c)
    THEN (Len(escape(c.ssid)) + 17)
            ..(Len(escape(c.ssid)) + 16 + Len(escape(c.authentication_type.password)))
    ELSE {}

\* C10: encode's output holds exactly 5 unescaped semicolons for WEP and WPA
\* and exactly 4 for NoPassword, and every ; , : " that comes from the ssid or
\* the password stands after an odd-length run of backslashes.
C10_NoSeparatorFromUserText ==
    pc = "encoded" =>
        /\ Cardinality(Separators(encoded))
                = (IF HasPassword(wifi_credentials) THEN 5 ELSE 4)
        /\ \A i \in SsidPositions(wifi_credentials) \cup PasswordPositions(wifi_credentials) :
                encoded[i] \in {";", ",", ":", "\""} => BackslashRun(encoded, i) % 2 = 1

C10_Witness ==
    /\ pc = "encoded"
    /\ wifi_credentials.ssid = <<";", "\\">>
    /\ wifi_credentials.authentication_type = WEP(<<"\\">>)
    /\ Cardinality(Separators(encoded)) = 5
    /\ BackslashRun(encoded, 9) = 1
    /\ encoded[9] = ";"

(***************************************************************************)
(* Properties of the public API (SpecApi).                                 *)
(***************************************************************************)
Rendered == {"encode_as_matrix", "encode_as_image", "encode_as_png", "encode_as_svg"}
LastWritten == sink[Len(sink)]

\* C7: when encode_as_svg succeeds the bytes written to the writer are in the
\* SVG format, and when encode_as_png succeeds they are in the PNG format.
C7_SvgWritesSvg ==
    /\ (pc = "encode_as_svg" /\ returned.ok) =>
            (sink # <<>> /\ LastWritten.format = "SVG")
    /\ (pc = "encode_as_png" /\ returned.ok) =>
            (sink # <<>> /\ LastWritten.format = "PNG")

\* C8: every encode_as_* function hands the collaborator the string
\* encode(credentials) with the caller's level, size and writer, and returns
\* the collaborator's reply, a failure included, as it is.
C8_PassThrough ==
    pc \in Rendered =>
        /\ call.data = Grammar(wifi_credentials)
        /\ call.ecc = request.ecc
        /\ pc # "encode_as_matrix" => call.size = request.size
        /\ pc \in {"encode_as_png", "encode_as_svg"} => call.writer = request.writer
        /\ returned = reply
        /\ ~reply.ok => (~returned.ok /\ returned.error = reply.error)

C8_Witness ==
    /\ pc = "encode_as_png"
    /\ wifi_credentials.ssid = <<";">>
    /\ request.ecc = "Medium"
    /\ request.size = 100
    /\ call.function = "to_png_to_writer"
    /\ call.data = Grammar(wifi_credentials)
    /\ reply = Err("IOError")
    /\ returned = Err("IOError")

\* every credentials value of the API specification with its encoding
Encodings == {<<c, WifiCredentials_encode(c)>> : c \in ApiCredentials}

====
